---------------------------- MODULE Spec2Model ----------------------------
(***************************************************************************)
(* Model of AppGitHubDossie:                                               *)
(*   - the repository tree route  (walk / GET),                            *)
(*   - the PDF export route       (POST / getBrowserLauncher / ...),       *)
(*   - the dossier assembler      (buildDossierMarkdown / buildAsciiTree). *)
(* Each of the three is a stateless request handler; each gets its own     *)
(* specification over the shared variable tuple.                           *)
(***************************************************************************)
EXTENDS Integers, Sequences, FiniteSets, TLC

VARIABLES
    \* ---- tree route ----
    repo,       \* the remote repository the API serves (shape parameters)
    stack,      \* call stack of walk(): one frame per active call
    wpc,        \* position of GET: "idle" | "run" | "throw" | "done"
    werr,       \* the exception in flight while wpc = "throw"
    wresp,      \* the response of GET
    events,     \* log of octokit traffic: begin / ok / fail / acqfail
    \* ---- pdf route ----
    preq,       \* the request: body kind and title
    penv,       \* the host: installed packages, env variables, platform
    ppc,        \* position of POST
    browser,    \* "none" | "open" | "closed"
    steps,      \* the browser-side steps performed so far, in order
    consulted,  \* the resolvers consulted so far, in order
    launcher,   \* what getBrowserLauncher returned
    presp,      \* the response of POST
    \* ---- filename ----
    sanTitle,   \* title field of the request body (or NoTitle)
    sanFile,    \* the filename placed in Content-Disposition
    \* ---- ascii tree ----
    treePaths,  \* argument of buildAsciiTree
    treeLines,  \* the lines it produced
    treePc,     \* "ready" | "built"
    \* ---- dossier ----
    dArgs,      \* the caller's argument objects (mutable arrays/objects)
    dOut,       \* the documents returned so far, newest last
    clock       \* wall clock read by new Date()

walkVars == <<repo, stack, wpc, werr, wresp, events>>
pdfVars  == <<preq, penv, ppc, browser, steps, consulted, launcher, presp>>
sanVars  == <<sanTitle, sanFile>>
treeVars == <<treePaths, treeLines, treePc>>
dosVars  == <<dArgs, dOut, clock>>
vars     == <<walkVars, pdfVars, sanVars, treeVars, dosVars>>

(***************************************************************************)
(* Generic helpers                                                         *)
(***************************************************************************)
Last(s) == s[Len(s)]

Front(s) == SubSeq(s, 1, Len(s) - 1)

Range(s) == {s[i] : i \in 1..Len(s)}

IsPrefix(p, q) == Len(p) <= Len(q) /\ SubSeq(q, 1, Len(p)) = p

IsProperPrefix(p, q) == Len(p) < Len(q) /\ IsPrefix(p, q)

SeqsUpTo(S, n) == UNION {[1..k -> S] : k \in 0..n}

(***************************************************************************)
(* 1. Tree route: app/api/repos/[owner]/[name]/tree/route.ts               *)
(***************************************************************************)
MAX_DEPTH == 6

\* Longest chain of nested directories a modelled repository may hold.
MaxChain == 8

\* What a directory listing may look like: the types of its entries, in the
\* order the API lists them.
Patterns ==
    { <<>>,
      <<"file", "dir">>,
      <<"dir", "file">>,
      <<"dir", "dir">>,
      <<"symlink", "dir", "file", "submodule">> }

Repos == [chain : 0..MaxChain, patA : Patterns, patB : Patterns]

NotDir(t) == t # "dir"

\* The types listed by directory `path` of repository r.  Directories nest
\* down to depth r.chain; below that a directory lists no sub-directory.
\* A directory named by an odd index (and the root) follows patA, the others
\* patB, so that sibling sub-trees differ.
ListingTypes(r, path) ==
    LET pat == IF path = <<>> \/ Last(path) % 2 = 1 THEN r.patA ELSE r.patB
    IN  IF Len(path) < r.chain THEN pat ELSE SelectSeq(pat, NotDir)

\* An entry is named by its position in its parent's listing.
EntryOf(path, i, t) ==
    [path |-> Append(path, i),
     type |-> t,
     size |-> IF t = "dir" THEN 0 ELSE 10 * (Len(path) + 1) + (i - 1)]

\* octokit.repos.getContent({owner, repo, path}) on a directory
Listing(r, path) ==
    LET ts == ListingTypes(r, path)
    IN  [i \in 1..Len(ts) |-> EntryOf(path, i, ts[i])]

NoStatus == 0

\* no exception
NoErr == [status |-> NoStatus, message |-> ""]

\* no response yet
NoResp == [status |-> NoStatus, body |-> <<>>]

\* Failures of octokit.repos.getContent (RequestError: status + message)
FetchErrors ==
    { [status |-> 404, message |-> "Not Found"],
      [status |-> 404, message |-> "Missing"],
      [status |-> 401, message |-> "Unauthorized"],
      [status |-> 401, message |-> "Bad credentials"],
      [status |-> 500, message |-> "Server Error"],
      [status |-> 500, message |-> "Not Found"] }

\* Failures of getOctokitForUser (plain Error)
AcquireErrors ==
    { [status |-> NoStatus, message |-> "No GitHub token"],
      [status |-> NoStatus, message |-> "Unauthorized"],
      [status |-> NoStatus, message |-> "Session store unavailable"] }

\* getErrorMessage(err): the message the error carries
getErrorMessage(err) == err.message

DepthExceeded_beyond(depth) == depth > MAX_DEPTH + 1

DepthExceeded_early(depth) == depth >= MAX_DEPTH

\* line 15: if (depth > MAX_DEPTH) return [];
DepthExceeded(depth) == depth > MAX_DEPTH

CatchMessage_plain(err) == getErrorMessage(err)

\* line 35: (err as any)?.status === 404 ? "Not Found" : getErrorMessage(err)
CatchMessage(err) ==
    IF err.status = 404 THEN "Not Found" ELSE getErrorMessage(err)

\* line 37: throw new Error(message)
WalkCatch(err) == [status |-> NoStatus, message |-> CatchMessage(err)]

\* lines 56-57
StatusFor(msg) ==
    IF msg = "Unauthorized" \/ msg = "No GitHub token" THEN 401
    ELSE IF msg = "Not Found" THEN 404
    ELSE 502

\* line 26
DirNode(e) == [path |-> e.path, type |-> "dir"]

\* line 29
FileNode(e) == [path |-> e.path, type |-> "file", size |-> e.size]

Spread_before(out, sub) == sub \o out

\* line 27: out.push(...sub)
Spread(out, sub) == out \o sub

Frame(path, depth) ==
    [path |-> path, depth |-> depth, stage |-> "enter",
     entries |-> <<>>, idx |-> 1, out |-> <<>>]

Top == stack[Len(stack)]

SetTop(f) == [stack EXCEPT ![Len(stack)] = f]

Running == wpc = "run" /\ stack # <<>>

\* A call of walk returns `nodes`: to GET (lines 52-53) when it is the root
\* call, else to the caller's loop at line 27.
Return(nodes) ==
    IF Len(stack) = 1
    THEN /\ stack' = <<>>
         /\ wpc' = "done"
         /\ wresp' = [status |-> 200, body |-> nodes]
    ELSE LET parent == stack[Len(stack) - 1]
         IN  /\ stack' = Append(SubSeq(stack, 1, Len(stack) - 2),
                                [parent EXCEPT !.out = Spread(parent.out, nodes),
                                               !.idx = parent.idx + 1])
             /\ wpc' = "run"
             /\ wresp' = wresp

\* An exception leaves the top frame.
Throw(err) ==
    /\ stack' = Front(stack)
    /\ wpc' = "throw"
    /\ werr' = err
    /\ wresp' = wresp

\* The tree route touches nothing of the other handlers.
WalkOnly == UNCHANGED <<pdfVars, sanVars, treeVars, dosVars>>

WalkInit ==
    /\ repo \in Repos
    /\ stack = <<>>
    /\ wpc = "idle"
    /\ werr = NoErr
    /\ wresp = NoResp
    /\ events = <<>>

\* GET line 52: walk(owner, repo, "")
GetStart ==
    /\ WalkOnly
    /\ wpc = "idle"
    /\ wpc' = "run"
    /\ stack' = <<Frame(<<>>, 0)>>
    /\ UNCHANGED <<repo, werr, wresp, events>>

\* walk line 15
DepthGuard ==
    /\ WalkOnly
    /\ Running /\ Top.stage = "enter"
    /\ DepthExceeded(Top.depth)
    /\ Return(<<>>)
    /\ UNCHANGED <<repo, werr, events>>

\* walk lines 17, 20: the client is obtained and the request is sent
AcquireOk ==
    /\ WalkOnly
    /\ Running /\ Top.stage = "enter"
    /\ ~DepthExceeded(Top.depth)
    /\ stack' = SetTop([Top EXCEPT !.stage = "fetch"])
    /\ events' = Append(events, [op |-> "begin", path |-> Top.path, err |-> NoErr])
    /\ UNCHANGED <<repo, wpc, werr, wresp>>

\* walk line 17 throws: outside the try, so this call does not catch it
AcquireFail ==
    /\ WalkOnly
    /\ Running /\ Top.stage = "enter"
    /\ ~DepthExceeded(Top.depth)
    /\ \E e \in AcquireErrors :
          /\ Throw(e)
          /\ events' = Append(events, [op |-> "acqfail", path |-> Top.path, err |-> e])
    /\ UNCHANGED repo

\* walk lines 20-23
FetchOk ==
    /\ WalkOnly
    /\ Running /\ Top.stage = "fetch"
    /\ stack' = SetTop([Top EXCEPT !.stage = "loop",
                                   !.entries = Listing(repo, Top.path),
                                   !.idx = 1,
                                   !.out = <<>>])
    /\ events' = Append(events, [op |-> "ok", path |-> Top.path, err |-> NoErr])
    /\ UNCHANGED <<repo, wpc, werr, wresp>>

\* walk line 20 rejects: caught at line 33, re-thrown at line 37
FetchFail ==
    /\ WalkOnly
    /\ Running /\ Top.stage = "fetch"
    /\ \E e \in FetchErrors :
          /\ Throw(WalkCatch(e))
          /\ events' = Append(events, [op |-> "fail", path |-> Top.path, err |-> e])
    /\ UNCHANGED repo

\* walk lines 25-27
LoopDir ==
    /\ WalkOnly
    /\ Running /\ Top.stage = "loop" /\ Top.idx <= Len(Top.entries)
    /\ LET e == Top.entries[Top.idx]
       IN  /\ e.type = "dir"
           /\ stack' = Append(SetTop([Top EXCEPT !.out = Append(Top.out, DirNode(e))]),
                              Frame(e.path, Top.depth + 1))
    /\ UNCHANGED <<repo, wpc, werr, wresp, events>>

\* walk lines 28-29
LoopFile ==
    /\ WalkOnly
    /\ Running /\ Top.stage = "loop" /\ Top.idx <= Len(Top.entries)
    /\ LET e == Top.entries[Top.idx]
       IN  /\ e.type = "file"
           /\ stack' = SetTop([Top EXCEPT !.out = Append(Top.out, FileNode(e)),
                                          !.idx = Top.idx + 1])
    /\ UNCHANGED <<repo, wpc, werr, wresp, events>>

\* walk lines 24-30: an entry that is neither "dir" nor "file" is skipped
LoopOther ==
    /\ WalkOnly
    /\ Running /\ Top.stage = "loop" /\ Top.idx <= Len(Top.entries)
    /\ Top.entries[Top.idx].type \notin {"dir", "file"}
    /\ stack' = SetTop([Top EXCEPT !.idx = Top.idx + 1])
    /\ UNCHANGED <<repo, wpc, werr, wresp, events>>

\* walk line 32
LoopEnd ==
    /\ WalkOnly
    /\ Running /\ Top.stage = "loop" /\ Top.idx > Len(Top.entries)
    /\ Return(Top.out)
    /\ UNCHANGED <<repo, werr, events>>

\* the rejected `await walk(...)` of line 27 lands in the caller's catch
Unwind ==
    /\ WalkOnly
    /\ wpc = "throw" /\ stack # <<>>
    /\ Throw(WalkCatch(werr))
    /\ UNCHANGED <<repo, events>>

\* GET lines 54-58
GetCatch ==
    /\ WalkOnly
    /\ wpc = "throw" /\ stack = <<>>
    /\ wpc' = "done"
    /\ wresp' = [status |-> StatusFor(getErrorMessage(werr)),
                 body |-> getErrorMessage(werr)]
    /\ UNCHANGED <<repo, stack, werr, events>>

WalkNext ==
    \/ GetStart
    \/ DepthGuard
    \/ AcquireOk
    \/ AcquireFail
    \/ FetchOk
    \/ FetchFail
    \/ LoopDir
    \/ LoopFile
    \/ LoopOther
    \/ LoopEnd
    \/ Unwind
    \/ GetCatch

(***************************************************************************)
(* 2. PDF route: src/app/api/export/pdf/route.ts                           *)
(***************************************************************************)
Absent == "absent"

\* Strings whose characters matter are sequences of one-character strings.
Dossie == <<"d", "o", "s", "s", "i", "e">>

\* the title field is missing from the body
NoTitle == <<"undefined">>

Q1Report == <<"Q", "1", " ", "R", "e", "p", "o", "r", "t", "/", "2", "0", "2", "4">>

Lower ==
    {"a", "b", "c", "d", "e", "f", "g", "h", "i", "j", "k", "l", "m",
     "n", "o", "p", "q", "r", "s", "t", "u", "v", "w", "x", "y", "z"}

Upper ==
    {"A", "B", "C", "D", "E", "F", "G", "H", "I", "J", "K", "L", "M",
     "N", "O", "P", "Q", "R", "S", "T", "U", "V", "W", "X", "Y", "Z"}

Digits == {"0", "1", "2", "3", "4", "5", "6", "7", "8", "9"}

\* the class [a-z0-9_\-\.] under the i flag (line 154)
InClass(c) == c \in Lower \cup Upper \cup Digits \cup {"_", "-", "."}

RECURSIVE ReplaceEach(_)
ReplaceEach(s) ==
    IF s = <<>> THEN <<>>
    ELSE <<IF InClass(s[1]) THEN s[1] ELSE "_">> \o ReplaceEach(Tail(s))

\* Length of the longest prefix of s made of characters outside the class:
\* what one match of [^a-z0-9_\-\.]+ consumes.
RECURSIVE RunLength(_)
RunLength(s) ==
    IF s = <<>> \/ InClass(s[1]) THEN 0 ELSE 1 + RunLength(Tail(s))

sanitizeFileName_each(s) == ReplaceEach(s)

\* line 154: s.replace(/[^a-z0-9_\-\.]+/gi, "_"), scanning left to right:
\* every match (a maximal run) is replaced by one "_".
RECURSIVE sanitizeFileName(_)
sanitizeFileName(s) ==
    IF s = <<>> THEN <<>>
    ELSE IF InClass(s[1]) THEN <<s[1]>> \o sanitizeFileName(Tail(s))
    ELSE <<"_">> \o sanitizeFileName(SubSeq(s, RunLength(s) + 1, Len(s)))

\* line 9: const { markdown, title = "dossie" } = ...
TitleOrDefault(t) == IF t = NoTitle THEN Dossie ELSE t

\* line 68: `${sanitizeFileName(title)}.pdf`
FileName(title) == sanitizeFileName(title) \o <<".", "p", "d", "f">>

CloudVars == {"VERCEL", "AWS_REGION", "AWS_EXECUTION_ENV", "LAMBDA_TASK_ROOT"}

LocalPath == "/local/chrome"

EnvPath == "/env/chrome"

ChromiumPath == "/tmp/chromium"

Requests ==
    {[body |-> "empty", markdown |-> Absent, title |-> NoTitle],
     [body |-> "null", markdown |-> Absent, title |-> NoTitle],
     [body |-> "object", markdown |-> Absent, title |-> NoTitle],
     [body |-> "object", markdown |-> Absent, title |-> Q1Report],
     [body |-> "object", markdown |-> "", title |-> NoTitle],
     [body |-> "object", markdown |-> "# Hi", title |-> NoTitle],
     [body |-> "object", markdown |-> "# Hi", title |-> Q1Report]}

Hosts ==
    [localImport : BOOLEAN,                 \* import("puppeteer") succeeds
     localPath : {"", LocalPath},           \* puppeteer.executablePath()
     envPath : {Absent, "", EnvPath},       \* PUPPETEER_EXECUTABLE_PATH
     platform : {"linux", "darwin"},        \* process.platform
     cloud : {{}, CloudVars} \cup {{v} : v \in CloudVars},  \* variables set
     chromiumPath : {"", ChromiumPath},     \* chromium.executablePath()
     exists : SUBSET {LocalPath, EnvPath, ChromiumPath}]    \* existsSync

existsSync(env, path) == path \in env.exists

Truthy(s) == s # Absent /\ s # ""

shouldUseLambdaChromium_anyPlatform(env) == env.cloud # {}

\* lines 133-142
shouldUseLambdaChromium(env) ==
    IF env.platform # "linux" THEN FALSE
    ELSE env.cloud # {}

\* lines 121-125: what resolveLocalPuppeteer finds
LocalFound(env) ==
    env.localImport /\ Truthy(env.localPath) /\ existsSync(env, env.localPath)

\* line 84
EnvFound(env) == Truthy(env.envPath) /\ existsSync(env, env.envPath)

\* line 109 (negated)
ChromiumFound(env) == Truthy(env.chromiumPath) /\ existsSync(env, env.chromiumPath)

NoBrowserMsg == "Nenhum navegador foi encontrado. Instale o Chrome ou defina PUPPETEER_EXECUTABLE_PATH."

NoChromiumMsg == "Nenhum executavel do Chromium foi encontrado para gerar o PDF."

StepAfter_closeFirst(s) ==
    CASE s = "launch" -> "newPage"
      [] s = "newPage" -> "setContent"
      [] s = "setContent" -> "emulateMediaType"
      [] s = "emulateMediaType" -> "close"
      [] s = "close" -> "pdf"
      [] s = "pdf" -> "respond"

\* lines 46-65: the statement that follows each awaited call
StepAfter(s) ==
    CASE s = "launch" -> "newPage"
      [] s = "newPage" -> "setContent"
      [] s = "setContent" -> "emulateMediaType"
      [] s = "emulateMediaType" -> "pdf"
      [] s = "pdf" -> "close"
      [] s = "close" -> "respond"

\* lines 72-75: the catch block builds the 500 response
ErrorResponse(msg) == [status |-> 500, body |-> <<"PDF error: ", msg>>, filename |-> <<>>]

\* getBrowserLauncher has not returned
NoLauncher == [kind |-> "none", executablePath |-> "", args |-> "none"]

\* POST has not returned
NoPdfResp == [status |-> NoStatus, body |-> <<>>, filename |-> <<>>]

PdfOnly == UNCHANGED <<walkVars, sanVars, treeVars, dosVars>>

PdfInit ==
    /\ preq \in Requests
    /\ penv \in Hosts
    /\ ppc = "parse"
    /\ browser = "none"
    /\ steps = <<>>
    /\ consulted = <<>>
    /\ launcher = NoLauncher
    /\ presp = NoPdfResp

\* An exception reaches the catch of POST (lines 72-76); nothing else is done.
Fail(msg) ==
    /\ ppc' = "done"
    /\ presp' = ErrorResponse(msg)

\* line 9: req.json() rejects on a body that is not JSON (an empty body), and
\* destructuring null throws
ParseFail ==
    /\ PdfOnly
    /\ ppc = "parse"
    /\ preq.body \in {"empty", "null"}
    /\ Fail(IF preq.body = "empty" THEN "Unexpected end of JSON input"
            ELSE "Cannot destructure property 'markdown' of null")
    /\ UNCHANGED <<preq, penv, browser, steps, consulted, launcher>>

\* line 9
ParseOk ==
    /\ PdfOnly
    /\ ppc = "parse"
    /\ preq.body = "object"
    /\ ppc' = "validate"
    /\ UNCHANGED <<preq, penv, browser, steps, consulted, launcher, presp>>

\* line 13
Reject ==
    /\ PdfOnly
    /\ ppc = "validate"
    /\ ~Truthy(preq.markdown)
    /\ ppc' = "done"
    /\ presp' = [status |-> 400, body |-> <<"markdown required">>, filename |-> <<>>]
    /\ UNCHANGED <<preq, penv, browser, steps, consulted, launcher>>

\* lines 16-42
Render ==
    /\ PdfOnly
    /\ ppc = "validate"
    /\ Truthy(preq.markdown)
    /\ ppc' = "local"
    /\ steps' = Append(steps, "render")
    /\ UNCHANGED <<preq, penv, browser, consulted, launcher, presp>>

\* lines 80-81, 119-131
ResolveLocal ==
    /\ PdfOnly
    /\ ppc = "local"
    /\ consulted' = Append(consulted, "local")
    /\ IF LocalFound(penv)
       THEN /\ launcher' = [kind |-> "local", executablePath |-> penv.localPath,
                            args |-> "none"]
            /\ ppc' = "launch"
       ELSE /\ launcher' = launcher
            /\ ppc' = "env"
    /\ UNCHANGED <<preq, penv, browser, steps, presp>>

\* lines 83-87
ResolveEnv ==
    /\ PdfOnly
    /\ ppc = "env"
    /\ consulted' = Append(consulted, "env")
    /\ IF EnvFound(penv)
       THEN /\ launcher' = [kind |-> "env", executablePath |-> penv.envPath,
                            args |-> "none"]
            /\ ppc' = "launch"
       ELSE /\ launcher' = launcher
            /\ ppc' = "gate"
    /\ UNCHANGED <<preq, penv, browser, steps, presp>>

\* lines 89-93
LambdaGate ==
    /\ PdfOnly
    /\ ppc = "gate"
    /\ IF shouldUseLambdaChromium(penv)
       THEN /\ ppc' = "lambda"
            /\ presp' = presp
       ELSE Fail(NoBrowserMsg)
    /\ UNCHANGED <<preq, penv, browser, steps, consulted, launcher>>

\* lines 95-116
ResolveLambda ==
    /\ PdfOnly
    /\ ppc = "lambda"
    /\ consulted' = Append(consulted, "lambda")
    /\ IF ChromiumFound(penv)
       THEN /\ launcher' = [kind |-> "lambda", executablePath |-> penv.chromiumPath,
                            args |-> "chromium.args"]
            /\ ppc' = "launch"
            /\ presp' = presp
       ELSE /\ launcher' = launcher
            /\ Fail(NoChromiumMsg)
    /\ UNCHANGED <<preq, penv, browser, steps>>

BrowserSteps == {"launch", "newPage", "setContent", "emulateMediaType", "pdf", "close"}

\* What a successful call does to the browser process.
BrowserAfter(s, b) ==
    CASE s = "launch" -> "open"
      [] s = "close" -> "closed"
      [] OTHER -> b

\* lines 46-62: one awaited browser call, which resolves or rejects
BrowserCall ==
    /\ PdfOnly
    /\ ppc \in BrowserSteps
    /\ steps' = Append(steps, ppc)
    /\ \E ok \in BOOLEAN :
          IF ok
          THEN /\ browser' = BrowserAfter(ppc, browser)
               /\ ppc' = StepAfter(ppc)
               /\ presp' = presp
          ELSE /\ browser' = browser
               /\ Fail(ppc)
    /\ UNCHANGED <<preq, penv, consulted, launcher>>

\* lines 64-71
Respond ==
    /\ PdfOnly
    /\ ppc = "respond"
    /\ steps' = Append(steps, "respond")
    /\ ppc' = "done"
    /\ presp' = [status |-> 200, body |-> <<"%PDF">>,
                 filename |-> FileName(TitleOrDefault(preq.title))]
    /\ UNCHANGED <<preq, penv, browser, consulted, launcher>>

PdfNext ==
    \/ ParseFail
    \/ ParseOk
    \/ Reject
    \/ Render
    \/ ResolveLocal
    \/ ResolveEnv
    \/ LambdaGate
    \/ ResolveLambda
    \/ BrowserCall
    \/ Respond

(***************************************************************************)
(* The attachment filename on its own (route.ts lines 9, 68, 153-155)      *)
(***************************************************************************)
MaxTitleLen == 3

TitleChars == {"a", "Q", "1", "_", "-", ".", " ", "/"}

Titles == SeqsUpTo(TitleChars, MaxTitleLen) \cup {Q1Report, Dossie, NoTitle}

SanOnly == UNCHANGED <<walkVars, pdfVars, treeVars, dosVars>>

SanInit ==
    /\ sanTitle \in Titles
    /\ sanFile = <<>>

\* lines 9 and 68
BuildFileName ==
    /\ SanOnly
    /\ sanFile = <<>>
    /\ sanFile' = FileName(TitleOrDefault(sanTitle))
    /\ UNCHANGED sanTitle

SanNext == BuildFileName

(***************************************************************************)
(* 3. Dossier assembler: lib/dossier/markdown.ts                           *)
(***************************************************************************)
\* A path is a string, modelled as a sequence of one-character strings.
Slash == "/"

\* UTF-16 code units of the characters used in paths
CodeUnit(c) == CASE c = "/" -> 47 [] c = "B" -> 66 [] c = "a" -> 97

\* Collation rank of the letters used in names ("a" sorts before "B")
Collate(c) == CASE c = "a" -> 1 [] c = "B" -> 2 [] c = "/" -> 0

\* -1 / 0 / 1 comparison of two strings by code unit, a proper prefix
\* first: the default comparison of Array.prototype.sort()
RECURSIVE codeUnitCompare(_, _)
codeUnitCompare(a, b) ==
    IF a = <<>> /\ b = <<>> THEN 0
    ELSE IF a = <<>> THEN -1
    ELSE IF b = <<>> THEN 1
    ELSE IF CodeUnit(a[1]) < CodeUnit(b[1]) THEN -1
    ELSE IF CodeUnit(a[1]) > CodeUnit(b[1]) THEN 1
    ELSE codeUnitCompare(Tail(a), Tail(b))

localeCompare_codeUnit(a, b) == codeUnitCompare(a, b)

\* line 180: a.localeCompare(b), by collation rank
RECURSIVE localeCompare(_, _)
localeCompare(a, b) ==
    IF a = <<>> /\ b = <<>> THEN 0
    ELSE IF a = <<>> THEN -1
    ELSE IF b = <<>> THEN 1
    ELSE IF Collate(a[1]) < Collate(b[1]) THEN -1
    ELSE IF Collate(a[1]) > Collate(b[1]) THEN 1
    ELSE localeCompare(Tail(a), Tail(b))

\* line 226: ([a], [b]) => a.localeCompare(b), on [key, value] entries
entryCompare(x, y) == localeCompare(x[1], y[1])

\* The comparator a sort is called with: none (code units), localeCompare
\* on names, or localeCompare on the keys of entries.
Cmp(how, x, y) ==
    CASE how = "default" -> codeUnitCompare(x, y)
      [] how = "names" -> localeCompare(x, y)
      [] how = "entries" -> entryCompare(x, y)

\* Stable insertion of x into the sorted sequence s: after every element
\* that does not compare greater than x.
RECURSIVE InsertSorted(_, _, _)
InsertSorted(how, s, x) ==
    IF s = <<>> THEN <<x>>
    ELSE IF Cmp(how, s[1], x) > 0 THEN <<x>> \o s
    ELSE <<s[1]>> \o InsertSorted(how, Tail(s), x)

\* Array.prototype.sort: a stable sort
RECURSIVE SortBy(_, _)
SortBy(how, s) ==
    IF s = <<>> THEN <<>>
    ELSE InsertSorted(how, SortBy(how, Front(s)), Last(s))

\* p.split("/"): the pieces between slashes, empty pieces included
RECURSIVE Split(_)
Split(p) ==
    IF \A i \in 1..Len(p) : p[i] # Slash THEN <<p>>
    ELSE LET k == CHOOSE i \in 1..Len(p) :
                     p[i] = Slash /\ \A j \in 1..(i - 1) : p[j] # Slash
         IN  <<SubSeq(p, 1, k - 1)>> \o Split(SubSeq(p, k + 1, Len(p)))

NonEmpty(part) == part # <<>>

\* line 166: p.split("/").filter(Boolean)
Parts(p) == SelectSeq(Split(p), NonEmpty)

\* The trie of nested Maps, flattened: the nodes (each named by the parts
\* leading to it from the root) in the order they were created.  Map keeps
\* insertion order, so the children of a node are the nodes one part longer,
\* in the order they appear here.
RECURSIVE InsertParts(_, _, _)
InsertParts(trie, parts, k) ==
    IF k > Len(parts) THEN trie
    ELSE LET node == SubSeq(parts, 1, k)
         IN  InsertParts(IF node \in Range(trie) THEN trie ELSE Append(trie, node),
                         parts, k + 1)

\* lines 165-174
RECURSIVE BuildTrie(_, _)
BuildTrie(trie, paths) ==
    IF paths = <<>> THEN trie
    ELSE BuildTrie(InsertParts(trie, Parts(paths[1]), 1), Tail(paths))

\* node.children.entries(), as the children's names in insertion order
ChildNames(trie, node) ==
    LET IsChild(n) == Len(n) = Len(node) + 1 /\ IsPrefix(node, n)
        kids == SelectSeq(trie, IsChild)
    IN  [i \in 1..Len(kids) |-> Last(kids[i])]

\* The two branch markers (U+2517 and U+2523 in the source) and the two
\* indentation units (blank, and U+2503 followed by blanks).
LastBranch == "+-"

MidBranch == "|-"

LastIndent == "   "

MidIndent == "|  "

\* line 184
isLast(idx, n) == idx = n

\* lines 178-192: print(node, prefix); the prefix is kept as its units
RECURSIVE print(_, _, _)
RECURSIVE printEntries(_, _, _, _, _)
printEntries(trie, node, entries, idx, prefix) ==
    IF idx > Len(entries) THEN <<>>
    ELSE LET name == entries[idx]
             child == Append(node, name)
             last == isLast(idx, Len(entries))
             line == [prefix |-> prefix,
                      branch |-> IF last THEN LastBranch ELSE MidBranch,
                      name |-> name]
             nextPrefix == Append(prefix, IF last THEN LastIndent ELSE MidIndent)
             below == IF Len(ChildNames(trie, child)) > 0
                      THEN print(trie, child, nextPrefix)
                      ELSE <<>>
         IN  <<line>> \o below \o printEntries(trie, node, entries, idx + 1, prefix)

print(trie, node, prefix) ==
    printEntries(trie, node, SortBy("names", ChildNames(trie, node)), 1, prefix)

\* lines 159-196, up to the join: the lines pushed
buildAsciiTree(paths) ==
    IF Len(paths) = 0 THEN <<>>
    ELSE print(BuildTrie(<<>>, paths), <<>>, <<>>)

\* line 186: prefix, branch, a blank, name
LineText(l) == <<l.prefix, l.branch, " ", l.name>>

\* lines.join("\n") (line 195): the texts with a newline between neighbours
RECURSIVE JoinLines(_)
JoinLines(lines) ==
    IF lines = <<>> THEN <<>>
    ELSE IF Len(lines) = 1 THEN <<LineText(lines[1])>>
    ELSE <<LineText(lines[1]), "\n">> \o JoinLines(Tail(lines))

MaxPathLen == 2

MaxPaths == 2

PathChars == {"a", "B", "/"}

ShortPaths == SeqsUpTo(PathChars, MaxPathLen)

NestedPaths ==
    { <<"a", "/", "B">>, <<"a", "/", "a">>, <<"B", "/", "a">>,
      <<"a", "/", "B", "/", "a">>, <<"a", "/", "B", "/", "B">>,
      <<"B", "a", "/", "a">>, <<"/", "a", "/", "/", "B", "/">>,
      <<"B">>, <<"a", "B">> }

SamplePathLists ==
    { << <<"a", "/", "B", "/", "B">>, <<"a", "/", "B", "/", "a">>, <<"a", "/", "B", "/", "B">> >>,
      << <<"B">>, <<"a">>, <<"a", "B">>, <<"B", "/", "a">> >>,
      << <<"B", "/", "B">>, <<"B", "/", "a">>, <<"B", "/", "a", "B">>, <<"a">> >> }

PathLists ==
    SeqsUpTo(ShortPaths, MaxPaths) \cup SeqsUpTo(NestedPaths, MaxPaths)
        \cup SamplePathLists

TreeOnly == UNCHANGED <<walkVars, pdfVars, sanVars, dosVars>>

TreeInit ==
    /\ treePaths \in PathLists
    /\ treeLines = <<>>
    /\ treePc = "ready"

\* buildAsciiTree(paths)
BuildTree ==
    /\ TreeOnly
    /\ treePc = "ready"
    /\ treeLines' = buildAsciiTree(treePaths)
    /\ treePc' = "built"
    /\ UNCHANGED treePaths

TreeNext == BuildTree

(***************************************************************************)
(* buildDossierMarkdown (lines 15-147)                                     *)
(***************************************************************************)
MaxFlat == 3

MaxCalls == 2

PathA == <<"a">>

PathB == <<"B">>

PathAB == <<"a", "/", "B">>

PathBA == <<"B", "/", "a">>

FlatPaths == {PathA, PathB, PathAB, PathBA}

FileA == [path |-> PathA, content |-> "let a"]

FileBA == [path |-> PathBA, content |-> "let b"]

Metas ==
    { [owner |-> "acme", repo |-> "demo", languages |-> <<"SQL", "Go">>,
       techStackExtra |-> <<"Stripe", "Prisma">>] }

\* An optional argument: given or not (undefined).
Given(v) == [given |-> TRUE, val |-> v]

NotGiven == [given |-> FALSE, val |-> <<>>]

CommitLists ==
    { <<>>,
      << [sha |-> "1234567890", additions |-> 3, deletions |-> 1, flags |-> <<>>],
         [sha |-> "abcdef0123", additions |-> 0, deletions |-> 9, flags |-> <<"risky", "large">>] >> }

\* Objects keep their keys in insertion order: a sequence of <<key, value>>.
\* A dependency map that is missing is modelled as the empty map: both have
\* no entries (lines 220-221).
Packages ==
    { [dependencies |-> << <<PathB, "1.0">>, <<PathA, "2.0">> >>, devDependencies |-> <<>>],
      [dependencies |-> <<>>, devDependencies |-> << <<PathA, "3.0">>, <<PathB, "4.0">> >>] }

DossierArgs ==
    [meta : Metas,
     files : SeqsUpTo({FileA, FileBA}, 2),
     commitsReviewed : {NotGiven} \cup {Given(c) : c \in CommitLists},
     allPathsFlat : {NotGiven} \cup {Given(l) : l \in SeqsUpTo(FlatPaths, MaxFlat)},
     packageJsonSummary : {NotGiven} \cup {Given(k) : k \in Packages}]

\* files.map(f => f.path): a new array
FilePaths(files) == [i \in 1..Len(files) |-> files[i].path]

\* line 31: Array.prototype.sort() sorts the array it is called on, by code
\* unit, and returns that same array: this is what the receiver holds after.
sortInPlace(a) == SortBy("default", a)

\* line 31: the receiver of .sort() is allPathsFlat itself when it is given
ArgsAfter(args) ==
    IF ~args.allPathsFlat.given THEN args
    ELSE [args EXCEPT !.allPathsFlat.val = sortInPlace(@)]

\* line 31
pathsForTree(args) ==
    IF ~args.allPathsFlat.given
    THEN SortBy("default", FilePaths(args.files))
    ELSE SortBy("default", args.allPathsFlat.val)

\* lines 35-45: numbered heading, path and content of each selected file
filesSections(files) ==
    [i \in 1..Len(files) |-> [n |-> i, path |-> files[i].path, content |-> files[i].content]]

\* lines 198-211: one row per commit
renderCommits(commits) ==
    [i \in 1..Len(commits) |->
        [sha |-> commits[i].sha,
         delta |-> <<"+", commits[i].additions, "/-", commits[i].deletions>>,
         flags |-> IF commits[i].flags = <<>> THEN <<"-">> ELSE commits[i].flags]]

\* lines 223-229: Object.entries() is a new array; it is sorted by key
mkTable(entries) ==
    IF Len(entries) = 0 THEN << <<"_-_">> >>
    ELSE [i \in 1..Len(entries) |->
             <<"| ", SortBy("entries", entries)[i][1], " | ",
               SortBy("entries", entries)[i][2], " |">>]

\* lines 213-236
renderPackageSummary(pkg) ==
    [deps |-> mkTable(pkg.dependencies), dev |-> mkTable(pkg.devDependencies)]

\* lines 28-146: the document, as the values placed in its template
buildDossierMarkdown(args, now) ==
    [generatedAt |-> now,
     owner |-> args.meta.owner,
     repo |-> args.meta.repo,
     tree |-> LET t == JoinLines(buildAsciiTree(pathsForTree(args)))
              IN  IF t = <<>> THEN <<"-">> ELSE t,
     files |-> filesSections(args.files),
     commits |-> IF args.commitsReviewed.given /\ Len(args.commitsReviewed.val) > 0
                 THEN renderCommits(args.commitsReviewed.val)
                 ELSE <<>>,
     pkg |-> IF args.packageJsonSummary.given
             THEN renderPackageSummary(args.packageJsonSummary.val)
             ELSE [deps |-> <<>>, dev |-> <<>>],
     techStack |-> args.meta.languages \o <<"Next.js 14", "TypeScript", "TailwindCSS">>
                       \o args.meta.techStackExtra]

DosOnly == UNCHANGED <<walkVars, pdfVars, sanVars, treeVars>>

DosInit ==
    /\ dArgs \in DossierArgs
    /\ dOut = <<>>
    /\ clock = 0

\* One call of buildDossierMarkdown with the caller's argument objects.
CallBuild ==
    /\ DosOnly
    /\ Len(dOut) < MaxCalls
    /\ dOut' = Append(dOut, buildDossierMarkdown(dArgs, clock))
    /\ dArgs' = ArgsAfter(dArgs)
    /\ UNCHANGED clock

\* Time passes between calls.
Tick ==
    /\ DosOnly
    /\ clock < Len(dOut)
    /\ clock' = clock + 1
    /\ UNCHANGED <<dArgs, dOut>>

DosNext == CallBuild \/ Tick

(***************************************************************************)
(* Specifications: one handler runs, the others are at rest.               *)
(***************************************************************************)
WalkRest ==
    /\ repo = [chain |-> 0, patA |-> <<>>, patB |-> <<>>]
    /\ stack = <<>> /\ wpc = "idle" /\ werr = NoErr /\ wresp = NoResp /\ events = <<>>

PdfRest ==
    /\ preq = [body |-> "object", markdown |-> Absent, title |-> NoTitle]
    /\ penv = [localImport |-> FALSE, localPath |-> "", envPath |-> Absent,
               platform |-> "linux", cloud |-> {}, chromiumPath |-> "", exists |-> {}]
    /\ ppc = "rest" /\ browser = "none" /\ steps = <<>> /\ consulted = <<>>
    /\ launcher = NoLauncher /\ presp = NoPdfResp

SanRest == sanTitle = NoTitle /\ sanFile = <<".">>

TreeRest == treePaths = <<>> /\ treeLines = <<>> /\ treePc = "rest"

DosRest ==
    /\ dArgs = [meta |-> CHOOSE m \in Metas : TRUE, files |-> <<>>,
                 commitsReviewed |-> NotGiven, allPathsFlat |-> NotGiven,
                 packageJsonSummary |-> NotGiven]
    /\ dOut = <<>> /\ clock = 0

Init == WalkInit /\ PdfRest /\ SanRest /\ TreeRest /\ DosRest

Next == WalkNext

\* the tree route
Spec == Init /\ [][Next]_vars

PdfSpecInit == WalkRest /\ PdfInit /\ SanRest /\ TreeRest /\ DosRest

\* the PDF route
SpecPdf == PdfSpecInit /\ [][PdfNext]_vars

SanSpecInit == WalkRest /\ PdfRest /\ SanInit /\ TreeRest /\ DosRest

\* the attachment filename
SpecSan == SanSpecInit /\ [][SanNext]_vars

TreeSpecInit == WalkRest /\ PdfRest /\ SanRest /\ TreeInit /\ DosRest

\* the ASCII tree
SpecTree == TreeSpecInit /\ [][TreeNext]_vars

DosSpecInit == WalkRest /\ PdfRest /\ SanRest /\ TreeRest /\ DosInit

\* the dossier assembler
SpecDossier == DosSpecInit /\ [][DosNext]_vars

(***************************************************************************)
(* Properties of the tree route                                            *)
(***************************************************************************)
\* Strict order on paths of the repository: entry by entry in listing
\* order, a directory before everything below it.
RECURSIVE PathBefore(_, _)
PathBefore(p, q) ==
    IF q = <<>> THEN FALSE
    ELSE IF p = <<>> THEN TRUE
    ELSE IF p[1] # q[1] THEN p[1] < q[1]
    ELSE PathBefore(Tail(p), Tail(q))

SubDirsOf(r, d) ==
    {Listing(r, d)[i].path : i \in {j \in 1..Len(Listing(r, d)) : Listing(r, d)[j].type = "dir"}}

\* The directories of r at depth 0..k, level by level from the root.
RECURSIVE DirsToDepth(_, _)
DirsToDepth(r, k) ==
    IF k = 0 THEN {<<>>}
    ELSE LET above == DirsToDepth(r, k - 1)
         IN  above \cup UNION {SubDirsOf(r, d) : d \in {x \in above : Len(x) = k - 1}}

AllDirs(r) == DirsToDepth(r, r.chain + 1)

\* The node the contract asks for an entry: path and kind, plus the listed
\* size for a file.
NodeFor(e) ==
    IF e.type = "dir" THEN [path |-> e.path, type |-> "dir"]
    ELSE [path |-> e.path, type |-> "file", size |-> e.size]

NodesListedBy(r, d) ==
    {NodeFor(Listing(r, d)[i]) :
        i \in {j \in 1..Len(Listing(r, d)) : Listing(r, d)[j].type \in {"dir", "file"}}}

Begun == {events[i].path : i \in {j \in 1..Len(events) : events[j].op = "begin"}}

Failures == {i \in 1..Len(events) : events[i].op \in {"fail", "acqfail"}}

Succeeded == wpc = "done" /\ Failures = {}

\* C1: when every directory of the repository is within the depth cap and
\* every fetch succeeds, the result holds exactly one node per reachable
\* directory and file (files with their listed size), in pre-order: listing
\* order among siblings, a directory before its descendants, which follow it
\* contiguously.
C1_PreOrder ==
    (Succeeded /\ \A d \in AllDirs(repo) : Len(d) <= 6) =>
        LET out == wresp.body
        IN  /\ wresp.status = 200
            /\ Range(out) = UNION {NodesListedBy(repo, d) : d \in AllDirs(repo)}
            /\ \A i, j \in 1..Len(out) : i < j => PathBefore(out[i].path, out[j].path)
            /\ \A i, j, k \in 1..Len(out) :
                  (i < j /\ j < k /\ IsProperPrefix(out[i].path, out[k].path))
                      => IsProperPrefix(out[i].path, out[j].path)

\* The spec's example: README.md (10), src, src/index.ts (20).
C1_Witness ==
    /\ wpc = "done"
    /\ wresp.status = 200
    /\ wresp.body = << [path |-> <<1>>, type |-> "file", size |-> 10],
                       [path |-> <<2>>, type |-> "dir"],
                       [path |-> <<2, 1>>, type |-> "file", size |-> 20] >>

\* C2: a chain of sub-directories longer than the cap does not fail the
\* walk: only directories of depth <= 6 are fetched, a call at depth 7 or
\* more adds nothing, every node listed by a fetched directory is in the
\* result, and no error arises unless a fetch or the client failed.
C2_DepthCap ==
    /\ \A d \in Begun : Len(d) <= 6
    /\ wpc = "throw" => Failures # {}
    /\ Succeeded =>
          /\ wresp.status = 200
          /\ \A i \in 1..Len(wresp.body) : Len(wresp.body[i].path) <= 7
          /\ \A d \in Begun : NodesListedBy(repo, d) \subseteq Range(wresp.body)
          /\ \A i \in 1..Len(wresp.body) :
                \E d \in Begun : wresp.body[i] \in NodesListedBy(repo, d)

\* A walk that ended with a directory of depth 7 in the result whose own
\* entries were left out.
C2_Witness ==
    /\ Succeeded
    /\ wresp.status = 200
    /\ \E i \in 1..Len(wresp.body) :
          /\ wresp.body[i].type = "dir"
          /\ Len(wresp.body[i].path) = 7
          /\ Len(Listing(repo, wresp.body[i].path)) > 0

\* A failure reported not-found: by its status, or by its message.
ReportedNotFound(err) == err.status = 404 \/ err.message = "Not Found"

ExpectedStatus(err) ==
    IF ReportedNotFound(err) THEN 404
    ELSE IF err.message \in {"Unauthorized", "No GitHub token"} THEN 401
    ELSE 502

C9_FetchOnce ==
    /\ events # <<>> =>
          LET n == Len(events)
              e == events[n]
          IN  /\ e.op = "begin" =>
                    /\ \A i \in 1..(n - 1) :
                          events[i].op = "begin" => events[i].path # e.path
                    /\ n > 1 => events[n - 1].op = "ok"
                    /\ e.path # <<>> =>
                          \E i \in 1..(n - 1) :
                              events[i].op = "ok" /\ events[i].path = Front(e.path)
              /\ e.op \in {"ok", "fail"} =>
                    /\ n > 1
                    /\ events[n - 1].op = "begin"
                    /\ events[n - 1].path = e.path
              /\ e.op = "acqfail" => (n > 1 => events[n - 1].op = "ok")
              /\ \A i \in 1..(n - 1) : events[i].op \in {"begin", "ok"}
    /\ Succeeded => Begun = {d \in AllDirs(repo) : Len(d) <= 6}

\* A successful walk over sibling directories nested down to the cap.
C9_Witness ==
    /\ Succeeded
    /\ <<1, 1, 1, 1, 1, 1>> \in Begun
    /\ <<1, 1, 1, 1, 1, 2>> \in Begun
    /\ <<1, 1, 1, 1, 1, 1, 1>> \in AllDirs(repo)

(***************************************************************************)
(* Properties of the PDF route                                             *)
(***************************************************************************)
\* C4: a request with an empty body, or whose markdown is absent or empty,
\* is answered 400 "markdown required" before anything is rendered,
\* resolved or launched.
C4_MarkdownRequired ==
    (ppc = "done" /\ (preq.body = "empty" \/ (preq.body = "object" /\ ~Truthy(preq.markdown))))
        => /\ presp.status = 400
           /\ presp.body = <<"markdown required">>
           /\ steps = <<>>
           /\ consulted = <<>>

ResolverOrder == <<"local", "env", "lambda">>

\* Whether a resolver, were it asked, yields an executable that exists.
Yields(env, k) ==
    CASE k = "local" -> env.localImport /\ env.localPath = LocalPath /\ LocalPath \in env.exists
      [] k = "env" -> env.envPath = EnvPath /\ EnvPath \in env.exists
      [] k = "lambda" -> /\ env.platform = "linux" /\ env.cloud # {}
                         /\ env.chromiumPath = ChromiumPath /\ ChromiumPath \in env.exists

PathOf(env, k) ==
    CASE k = "local" -> env.localPath
      [] k = "env" -> env.envPath
      [] k = "lambda" -> env.chromiumPath

\* C5: the resolvers are consulted in the order local, env, cloud; the cloud
\* one only on linux with a cloud variable set; the first that yields an
\* existing executable is the launcher and none is consulted after it; when
\* none yields, launch is never called and the request ends 500 with the
\* configuration error's message.
C5_ResolverOrder ==
    /\ IsPrefix(consulted, ResolverOrder)
    /\ "lambda" \in Range(consulted) => (penv.platform = "linux" /\ penv.cloud # {})
    /\ \A i \in 1..Len(consulted) :
          \A j \in 1..(i - 1) : ~Yields(penv, consulted[j])
    /\ launcher # NoLauncher =>
          /\ launcher.kind = Last(consulted)
          /\ Yields(penv, launcher.kind)
          /\ launcher.executablePath = PathOf(penv, launcher.kind)
          /\ launcher.executablePath \in penv.exists
    /\ "launch" \in Range(steps) => launcher # NoLauncher
    /\ ((\E k \in Range(ResolverOrder) : Yields(penv, k))
            /\ (ppc \in BrowserSteps \cup {"respond"} \/ "launch" \in Range(steps))) =>
          launcher.kind = ResolverOrder[CHOOSE i \in 1..3 :
                              /\ Yields(penv, ResolverOrder[i])
                              /\ \A j \in 1..(i - 1) : ~Yields(penv, ResolverOrder[j])]
    /\ (ppc = "done" /\ "render" \in Range(steps)
            /\ \A k \in Range(ResolverOrder) : ~Yields(penv, k)) =>
          /\ "launch" \notin Range(steps)
          /\ launcher = NoLauncher
          /\ presp.status = 500
          /\ presp.body \in {<<"PDF error: ", NoBrowserMsg>>, <<"PDF error: ", NoChromiumMsg>>}

\* All three resolvers were consulted on a cloud host and none yielded.
C5_Witness ==
    /\ ppc = "done"
    /\ consulted = ResolverOrder
    /\ penv.localImport /\ penv.localPath = LocalPath /\ penv.envPath = EnvPath
    /\ penv.chromiumPath = ChromiumPath
    /\ penv.exists = {}
    /\ presp = ErrorResponse(NoChromiumMsg)

CallOrder == <<"render", "launch", "newPage", "setContent", "emulateMediaType", "pdf", "close", "respond">>

\* C6: the calls run in the order launch, newPage, setContent,
\* emulateMediaType, pdf, close, respond; a launched browser is closed
\* before the 200 response when every later call succeeds, and is still
\* open when the handler returns 500 because a later call failed.
C6_CloseOnSuccessOnly ==
    /\ IsPrefix(steps, CallOrder)
    /\ browser = "closed" => "close" \in Range(steps)
    /\ (ppc = "done" /\ browser # "none") =>
          /\ presp.status \in {200, 500}
          /\ presp.status = 200 <=> browser = "closed"
          /\ presp.status = 200 <=> steps = CallOrder
          /\ presp.status = 500 <=> browser = "open"
    /\ (ppc = "done" /\ presp.status = 200) => browser = "closed"

\* page.pdf() failed: 500, and the browser is left running.
C6_Witness ==
    /\ ppc = "done"
    /\ steps = <<"render", "launch", "newPage", "setContent", "emulateMediaType", "pdf">>
    /\ presp = ErrorResponse("pdf")
    /\ browser = "open"

(***************************************************************************)
(* Properties of the filename                                              *)
(***************************************************************************)
Stem(file) == SubSeq(file, 1, Len(file) - 4)

Built == sanFile # <<>>

\* C7 as stated: every character outside the allowlist becomes one
\* underscore, the others are kept in place.
C7_EachCharReplaced ==
    Built => sanFile = ReplaceEach(TitleOrDefault(sanTitle)) \o <<".", "p", "d", "f">>

\* The positions of t that leave a character in the result: the allowed
\* ones, and the first of each run of others.
Kept(t) == {i \in 1..Len(t) : InClass(t[i]) \/ i = 1 \/ InClass(t[i - 1])}

\* C7 (amended): every maximal run of characters outside the allowlist
\* becomes one underscore and every allowed character is kept, in order; the
\* result holds allowed characters only; "Q1 Report/2024" gives
\* "Q1_Report_2024" and a missing title gives "dossie.pdf".
C7_RunsCollapsed ==
    Built =>
        LET t == TitleOrDefault(sanTitle)
            stem == Stem(sanFile)
            NthKept(n) == CHOOSE i \in Kept(t) : Cardinality({j \in Kept(t) : j < i}) = n - 1
        IN  /\ SubSeq(sanFile, Len(sanFile) - 3, Len(sanFile)) = <<".", "p", "d", "f">>
            /\ Len(stem) = Cardinality(Kept(t))
            /\ \A n \in 1..Len(stem) :
                  stem[n] = IF InClass(t[NthKept(n)]) THEN t[NthKept(n)] ELSE "_"
            /\ \A n \in 1..Len(stem) : InClass(stem[n])
            /\ sanTitle = Q1Report =>
                  stem = <<"Q", "1", "_", "R", "e", "p", "o", "r", "t", "_", "2", "0", "2", "4">>
            /\ sanTitle = NoTitle => sanFile = <<"d", "o", "s", "s", "i", "e", ".", "p", "d", "f">>

\* A title with two characters in a row outside the allowlist.
C7_Witness ==
    /\ Built
    /\ sanTitle = <<"a", " ", "/">>
    /\ sanFile = <<"a", "_", ".", "p", "d", "f">>

(***************************************************************************)
(* Properties of the ASCII tree                                            *)
(***************************************************************************)
TreeBuilt == treePc = "built"

\* The distinct nodes of the trie: every non-empty prefix of the parts of
\* every path.
TrieNodes(paths) ==
    UNION {{SubSeq(Parts(paths[i]), 1, k) : k \in 1..Len(Parts(paths[i]))} : i \in 1..Len(paths)}

Depth(line) == Len(line.prefix)

\* The line a line hangs under: the nearest earlier line one level up.
ParentLine(lines, i) ==
    LET ups == {j \in 1..(i - 1) : Depth(lines[j]) = Depth(lines[i]) - 1}
    IN  IF ups = {} THEN 0 ELSE CHOOSE j \in ups : \A k \in ups : k <= j

\* The node a line stands for, read off the output alone.
RECURSIVE LineNode(_, _)
LineNode(lines, i) ==
    IF Depth(lines[i]) = 0 THEN <<lines[i].name>>
    ELSE IF ParentLine(lines, i) = 0 THEN << <<"?">> >>
    ELSE Append(LineNode(lines, ParentLine(lines, i)), lines[i].name)

\* Dictionary order of names: letter by letter ("a" before "B"), a name
\* before its extensions.
RECURSIVE NameBefore(_, _)
NameBefore(a, b) ==
    IF b = <<>> THEN FALSE
    ELSE IF a = <<>> THEN TRUE
    ELSE IF a[1] # b[1] THEN Collate(a[1]) < Collate(b[1])
    ELSE NameBefore(Tail(a), Tail(b))

\* Depth-first order with siblings by name: the first differing name
\* decides, a node comes before the nodes below it.
RECURSIVE NodeBefore(_, _)
NodeBefore(m, n) ==
    IF n = <<>> THEN FALSE
    ELSE IF m = <<>> THEN TRUE
    ELSE IF m[1] # n[1] THEN NameBefore(m[1], n[1])
    ELSE NodeBefore(Tail(m), Tail(n))

\* C8: one line per distinct trie node, depth-first, siblings in the order
\* of their names; in every sibling group the last child, and only it,
\* carries the terminal marker; duplicates and shared prefixes give one
\* line per node; no path gives no line.
C8_TreeShape ==
    TreeBuilt =>
        LET lines == treeLines
            node(i) == LineNode(lines, i)
        IN  /\ {node(i) : i \in 1..Len(lines)} = TrieNodes(treePaths)
            /\ Len(lines) = Cardinality(TrieNodes(treePaths))
            /\ \A i \in 1..Len(lines) : Depth(lines[i]) = Len(node(i)) - 1
            /\ \A i, j \in 1..Len(lines) : i < j => NodeBefore(node(i), node(j))
            /\ \A i \in 1..Len(lines) :
                  LET later == {j \in (i + 1)..Len(lines) : Front(node(j)) = Front(node(i))}
                  IN  /\ lines[i].branch = (IF later = {} THEN LastBranch ELSE MidBranch)
                      /\ lines[i].branch \in {LastBranch, MidBranch}
            /\ \A i \in 1..Len(lines) :
                  \A k \in 1..Len(lines[i].prefix) :
                      lines[i].prefix[k] \in {LastIndent, MidIndent}
            /\ treePaths = <<>> => JoinLines(lines) = <<>>

\* Three levels, with two siblings under "a/B" given out of name order and a
\* repeated path.
C8_Witness ==
    /\ TreeBuilt
    /\ treePaths = << <<"a", "/", "B", "/", "B">>, <<"a", "/", "B", "/", "a">>,
                       <<"a", "/", "B", "/", "B">> >>
    /\ treeLines = << [prefix |-> <<>>, branch |-> LastBranch, name |-> <<"a">>],
                      [prefix |-> <<LastIndent>>, branch |-> LastBranch, name |-> <<"B">>],
                      [prefix |-> <<LastIndent, LastIndent>>, branch |-> MidBranch, name |-> <<"a">>],
                      [prefix |-> <<LastIndent, LastIndent>>, branch |-> LastBranch, name |-> <<"B">>] >>

(***************************************************************************)
(* Properties of the dossier assembler                                     *)
(***************************************************************************)
\* C10: a call leaves every argument object as it was (same elements, same
\* order), the flat path list included.
C10_ArgsUntouched == [][Len(dOut') > Len(dOut) => dArgs' = dArgs]_vars

\* Two calls on the same argument objects return the same document, the
\* generated-at field apart.
C10_SameDocument ==
    Len(dOut) = 2 => [dOut[1] EXCEPT !.generatedAt = 0] = [dOut[2] EXCEPT !.generatedAt = 0]

=============================================================================
